---- MODULE Spec2Model ----
(***************************************************************************)
(* Session and offline-sync engine of the Trackup desktop agent            *)
(* (src-tauri/src: lib.rs, db.rs, screenshot.rs, activity.rs, idle.rs).    *)
(*                                                                         *)
(* The local store is the SQLite file: tables users, projects, sessions,   *)
(* activity_logs and pending_screenshots.  Every SQL statement is one      *)
(* atomic step.  Tauri runs the synchronous commands (login, logout,       *)
(* start_timer, stop_timer, process_idle_choice, ...) and the tray menu    *)
(* and event listeners on the main thread, so each of them is one action.  *)
(* The heartbeat thread, the sync cycle and the pull cycle run on their    *)
(* own threads / async tasks and are split at their statements and at the  *)
(* network round trips.                                                    *)
(***************************************************************************)
EXTENDS Integers, Sequences, FiniteSets, TLC

(* ------------------------------ bounds -------------------------------- *)
MaxTicks == 2
MaxSessions == 3
MaxLogs == 2
MaxShots == 2
MaxCount == 1
MaxSyncSessions == 2
MaxTotalRows == 2
MaxRotationTicks == 3
MaxDownTicks == 2

(* ------------------------- program constants -------------------------- *)
RotationMs == 10 * 60 * 1000
IdleThresholdSecs == 300
MsPerSecond == 1000

\* The clock advances in steps of half a rotation period.
TickMs == RotationMs \div 2

\* Option::None of an i64 column (end_time); real timestamps are >= 0.
NULL == 0 - 1

Projects == {"p1", "p2"}
\* current_project_id = None is stored as the empty string (save_user) and
\* read back as None (api_user_from_row).
NoProject == ""
UserIds == {"u1", "u2"}
LoginToken(u) == IF u = "u1" THEN "t1" ELSE "t2"
RefreshTokens == {"r1"}
\* An idle_time the command accepts (i64) besides the duration the idle
\* window was shown with.
OtherIdleTimes == {0 - IdleThresholdSecs}
\* uuid of a session created on another device.
ForeignUuid == MaxSessions + 1

VARIABLES
  now,                 \* wall clock, ms
  users,               \* table users: set of rows
  projects,            \* table projects: set of ids
  sessions,            \* table sessions: id -> row
  nextId,              \* AUTOINCREMENT of sessions.id
  activity_logs,       \* table activity_logs: id -> row
  nextLogId,
  pending_screenshots, \* table pending_screenshots: id -> row
  nextShotId,
  is_monitoring,       \* IdleState.is_monitoring
  last_activity_timestamp, \* IdleState.last_activity_timestamp, s
  keyboard_count,      \* IdleState.keyboard_count
  mouse_count,         \* IdleState.mouse_count
  hb,                  \* heartbeat thread: pc and locals
  pull,                \* pull-reconciliation tasks: pc and locals
  sync,                \* sync cycle task: pc and locals
  serverUp,            \* the remote service acknowledges every upload
  ackedLogs,           \* activity-log ids carried by a 2xx bulk upload
  ackedShots,          \* screenshot ids whose upload got 2xx
  logoutSignal,        \* "logout-user" was emitted to the frontend
  idlePrompt,          \* duration shown by the idle window, NULL when closed
  is_activity_loop_running, \* IdleState.is_activity_loop_running
  activity_threads,    \* activity loop threads: how many at each position
  today_total,         \* last result of get_project_today_total, s
  start_pc,            \* start_timer_internal: "idle", or "stamp" between its stores
  idle_event,          \* internal:idle_gap_detected not yet delivered, NULL if none
  quitting             \* upload_and_quit was called and the process has not ended

dbVars == <<users, projects, sessions, nextId>>
outboxVars == <<activity_logs, nextLogId, pending_screenshots, nextShotId>>
idleVars == <<is_monitoring, last_activity_timestamp, keyboard_count, mouse_count>>
envVars == <<serverUp, ackedLogs, ackedShots, logoutSignal, idlePrompt>>
loopVars == <<is_activity_loop_running, activity_threads>>
raceVars == <<start_pc, idle_event, quitting>>
vars == <<now, users, projects, sessions, nextId, activity_logs, nextLogId,
          pending_screenshots, nextShotId, is_monitoring,
          last_activity_timestamp, keyboard_count, mouse_count, hb, pull,
          sync, serverUp, ackedLogs, ackedShots, logoutSignal, idlePrompt,
          is_activity_loop_running, activity_threads, today_total,
          start_pc, idle_event, quitting>>

(* --------------------------- db.rs: users ----------------------------- *)
User(u, tok, cp) == [uuid |-> u, token |-> tok, current_project_id |-> cp]

\* get_user: SELECT ... FROM users LIMIT 1.
HasUser(us) == us # {}
GetUser(us) == CHOOSE u \in us : TRUE

AnyUser(us) == us # {}

\* The project the handlers work on: Some(user) with Some(project_id).
HasProject(us) == HasUser(us) /\ GetUser(us).current_project_id # NoProject
CurrentProject(us) == GetUser(us).current_project_id

SetCurrentProjectRows(us, pid) ==
  {[u EXCEPT !.current_project_id = pid] : u \in us}

\* UPDATE users SET token = ?1 WHERE uuid = ?2.
StaleToken(us, tok, uuid) == us

UpdateToken(us, tok, uuid) ==
  {IF u.uuid = uuid THEN [u EXCEPT !.token = tok] ELSE u : u \in us}

(* -------------------------- db.rs: sessions --------------------------- *)
NewSessionSynced(uuid, pid, t) ==
  [uuid |-> uuid, project_id |-> pid, start_time |-> t, end_time |-> NULL,
   is_active |-> TRUE, idle_seconds |-> 0, deducted_seconds |-> 0,
   status |-> "done", keyboard_events |-> 0, mouse_events |-> 0]

NewSession(uuid, pid, t) ==
  [uuid |-> uuid, project_id |-> pid, start_time |-> t, end_time |-> NULL,
   is_active |-> TRUE, idle_seconds |-> 0, deducted_seconds |-> 0,
   status |-> "pending", keyboard_events |-> 0, mouse_events |-> 0]

\* start_session: INSERT with a fresh uuid; the row id is the AUTOINCREMENT
\* value, and the fresh uuid is modelled by that same number.
StartSession(sess, id, pid, t) == sess @@ (id :> NewSession(id, pid, t))

StopEveryRow(sess, pid, t) ==
  [i \in DOMAIN sess |->
     IF sess[i].project_id = pid
     THEN [sess[i] EXCEPT !.is_active = FALSE, !.end_time = t]
     ELSE sess[i]]

\* stop_session: UPDATE ... WHERE project_id = ?2 AND is_active = 1.
StopSession(sess, pid, t) ==
  [i \in DOMAIN sess |->
     IF sess[i].project_id = pid /\ sess[i].is_active
     THEN [sess[i] EXCEPT !.is_active = FALSE, !.end_time = t]
     ELSE sess[i]]

\* get_active_session: WHERE project_id = ?1 AND is_active = 1 LIMIT 1; which
\* row LIMIT 1 yields among several is left to the query planner.
ActiveIds(sess, pid) ==
  {i \in DOMAIN sess : sess[i].project_id = pid /\ sess[i].is_active}

\* update_session_heartbeat: UPDATE ... WHERE id = ?4.
UpdateSessionHeartbeat(sess, sid, t, k, m) ==
  [i \in DOMAIN sess |->
     IF i = sid
     THEN [sess[i] EXCEPT !.end_time = t, !.keyboard_events = k,
                          !.mouse_events = m]
     ELSE sess[i]]

\* The subquery of process_idle_choice:
\* SELECT id FROM sessions WHERE project_id = ?3 ORDER BY start_time DESC LIMIT 1.
\* Rows with the same start_time are in no defined order.
OldestIds(sess, pid) ==
  {i \in DOMAIN sess :
     /\ sess[i].project_id = pid
     /\ \A j \in DOMAIN sess :
          sess[j].project_id = pid => sess[j].start_time >= sess[i].start_time}

LatestIds(sess, pid) ==
  {i \in DOMAIN sess :
     /\ sess[i].project_id = pid
     /\ \A j \in DOMAIN sess :
          sess[j].project_id = pid => sess[j].start_time <= sess[i].start_time}

\* The UPDATE of process_idle_choice on the row the subquery returned.
IdleUpdate(sess, target, incIdle, incDeducted) ==
  [i \in DOMAIN sess |->
     IF i = target
     THEN [sess[i] EXCEPT !.idle_seconds = @ + incIdle,
                          !.deducted_seconds = @ + incDeducted]
     ELSE sess[i]]

IncDeducted(idle_time, keep) == IF ~keep THEN idle_time ELSE 0

(* ----------------------- db.rs: today's total ------------------------- *)
DayMs == 24 * 60 * 60 * 1000
StartOfDay(t) == t - (t % DayMs)

SessionDurationMillis(s, t) ==
  IF s.is_active
  THEN (IF t > s.start_time THEN t - s.start_time ELSE 0)
  ELSE (IF s.end_time # NULL /\ s.end_time > s.start_time
        THEN s.end_time - s.start_time ELSE 0)

SessionSecondsSigned(s, t) ==
  (SessionDurationMillis(s, t) \div MsPerSecond) - s.deducted_seconds

SessionSeconds(s, t) ==
  LET secs == (SessionDurationMillis(s, t) \div MsPerSecond) - s.deducted_seconds
  IN  IF secs < 0 THEN 0 ELSE secs

RECURSIVE SumOver(_, _, _)
SumOver(sess, ids, t) ==
  IF ids = {} THEN 0
  ELSE LET i == CHOOSE x \in ids : TRUE
       IN  SessionSeconds(sess[i], t) + SumOver(sess, ids \ {i}, t)

GetTodayTotalTime(sess, pid, t) ==
  SumOver(sess,
          {i \in DOMAIN sess : sess[i].project_id = pid
                               /\ sess[i].start_time >= StartOfDay(t)},
          t)

(* ------------------------ main-thread handlers ------------------------ *)
\* get_project_today_total(project_id): the total is returned to the caller.
\* NoTotal stands for "not called yet".
NoTotal == [project_id |-> NoProject, seconds |-> 0]

GetProjectTodayTotal(pid) ==
  /\ today_total' = [project_id |-> pid,
                     seconds |-> GetTodayTotalTime(sessions, pid, now)]
  /\ UNCHANGED <<now, dbVars, outboxVars, idleVars, hb, pull, sync, envVars,
                 loopVars, raceVars>>

\* Activity loop threads by position: in the 5 s sleep of an iteration, or
\* past the is_monitoring test that ends the loop and before the store that
\* clears the guard.
NoThreads == [sleep |-> 0, exit |-> 0]
UserProjects(u) == Projects
PullTasks == {"startup", "login"}
\* A pull task: its position, the server sessions still to merge, the row
\* get_session_by_uuid returned, and what the last merge did.
PullIdle == [pc |-> "idle", resp |-> <<>>, local |-> {}, last |-> "none"]

\* login: save_user replaces users and projects in one transaction, then
\* spawns sync_daily_sessions.
Login(u, cp) ==
  /\ users' = {User(u, LoginToken(u), cp)}
  /\ projects' = UserProjects(u)
  /\ pull' = IF pull["login"].pc = "idle"
             THEN [pull EXCEPT !["login"] = [PullIdle EXCEPT !.pc = "start"]]
             ELSE pull
  /\ logoutSignal' = FALSE
  /\ UNCHANGED <<now, sessions, nextId, outboxVars, idleVars, hb, sync,
                 serverUp, ackedLogs, ackedShots, idlePrompt,
                 loopVars, today_total, raceVars>>

\* logout: clear_user deletes projects, users and sessions.
ClearUserSessions(sess) == <<>>

Logout ==
  /\ users' = {}
  /\ projects' = {}
  /\ sessions' = ClearUserSessions(sessions)
  /\ UNCHANGED <<now, nextId, outboxVars, idleVars, hb, pull, sync, envVars,
                 loopVars, today_total, raceVars>>

SetCurrentProject(pid) ==
  /\ users' = SetCurrentProjectRows(users, pid)
  /\ UNCHANGED <<now, projects, sessions, nextId, outboxVars, idleVars, hb,
                 pull, sync, envVars,
                 loopVars, today_total, raceVars>>

\* start_activity_loop: swap(true) on the guard; a thread is spawned only
\* when the guard was false.  The new thread begins with its 5 s sleep.
SpawnAlways(running) == TRUE

SpawnsLoop(running) == ~running

StartActivityLoop ==
  /\ is_activity_loop_running' = TRUE
  /\ activity_threads' =
       IF SpawnsLoop(is_activity_loop_running)
       THEN [activity_threads EXCEPT !.sleep = @ + 1]
       ELSE activity_threads

\* start_timer_internal, applied to the sessions table sess.
StartTimerInternal(sess) ==
  IF HasProject(users) /\ ActiveIds(sess, CurrentProject(users)) = {}
  THEN /\ nextId <= MaxSessions
       /\ sessions' = StartSession(sess, nextId, CurrentProject(users), now)
       /\ nextId' = nextId + 1
       /\ is_monitoring' = TRUE
       /\ last_activity_timestamp' = now \div MsPerSecond
       /\ keyboard_count' = 0
       /\ mouse_count' = 0
       /\ StartActivityLoop
  ELSE /\ sessions' = sess
       /\ UNCHANGED <<nextId, idleVars, loopVars>>

StartTimer ==
  /\ StartTimerInternal(sessions)
  /\ UNCHANGED <<now, users, projects, outboxVars, hb, pull, sync, envVars,
                 today_total, raceVars>>

\* stop_timer_internal.
StopTimerInternal ==
  IF HasProject(users)
  THEN /\ sessions' = StopSession(sessions, CurrentProject(users), now)
       /\ is_monitoring' = FALSE
  ELSE UNCHANGED <<sessions, is_monitoring>>

StopTimer ==
  /\ StopTimerInternal
  /\ UNCHANGED <<now, users, projects, nextId, outboxVars,
                 last_activity_timestamp, keyboard_count, mouse_count, hb,
                 pull, sync, envVars,
                 loopVars, today_total, raceVars>>

\* process_idle_choice(idle_time, keep), invoked by the idle window: the
\* UPDATE on the latest session of the project, then start_timer_internal.
ProcessIdleChoice(idle_time, keep) ==
  /\ idlePrompt # NULL
  /\ idlePrompt' = NULL
  /\ IF HasProject(users)
     THEN \E target \in (IF LatestIds(sessions, CurrentProject(users)) = {}
                         THEN {NULL}
                         ELSE LatestIds(sessions, CurrentProject(users))) :
            StartTimerInternal(IdleUpdate(sessions, target, idle_time,
                                          IncDeducted(idle_time, keep)))
     ELSE UNCHANGED <<sessions, nextId, idleVars, loopVars>>
  /\ UNCHANGED <<now, users, projects, outboxVars, hb, pull, sync, serverUp,
                 ackedLogs, ackedShots, logoutSignal, today_total, raceVars>>

(* ---------------------- idle.rs: the OS listener ---------------------- *)
InputKinds == {"key", "mouse", "other"}
SaturatingSub(a, b) == IF a >= b THEN a - b ELSE 0

\* One input event seen by the event-tap callback.  A gap of at least the
\* threshold emits internal:idle_gap_detected, whose listener (lib.rs) calls
\* stop_timer_internal and shows the idle window with the duration.
OsInput(kind) ==
  /\ is_monitoring
  /\ kind = "key" => keyboard_count < MaxCount
  /\ kind = "mouse" => mouse_count < MaxCount
  /\ last_activity_timestamp' = now \div MsPerSecond
  /\ keyboard_count' = IF kind = "key" THEN keyboard_count + 1 ELSE keyboard_count
  /\ mouse_count' = IF kind = "mouse" THEN mouse_count + 1 ELSE mouse_count
  /\ IF SaturatingSub(now \div MsPerSecond, last_activity_timestamp)
          >= IdleThresholdSecs
     THEN /\ StopTimerInternal
          /\ idlePrompt' = SaturatingSub(now \div MsPerSecond,
                                         last_activity_timestamp)
     ELSE UNCHANGED <<sessions, is_monitoring, idlePrompt>>
  /\ UNCHANGED <<now, users, projects, nextId, outboxVars, hb, pull, sync,
                 serverUp, ackedLogs, ackedShots, logoutSignal,
                 loopVars, today_total, raceVars>>

(* ------------------- lib.rs: the heartbeat thread --------------------- *)
HbSleep == [pc |-> "sleep", pid |-> NoProject, sid |-> NULL]

\* The rotation test on the age of the active session.
RotationDueStrict(duration) == duration > RotationMs

RotationDue(duration) == duration >= RotationMs

\* After the 1 s sleep: get_user, get_active_session, the rotation test.
HbRead ==
  /\ hb.pc = "sleep"
  /\ IF HasProject(users) /\ ActiveIds(sessions, CurrentProject(users)) # {}
     THEN \E sid \in ActiveIds(sessions, CurrentProject(users)) :
            hb' = IF RotationDue(now - sessions[sid].start_time)
                  THEN [pc |-> "stop", pid |-> CurrentProject(users), sid |-> NULL]
                  ELSE [pc |-> "write", pid |-> CurrentProject(users), sid |-> sid]
     ELSE hb' = hb
  /\ UNCHANGED <<now, dbVars, outboxVars, idleVars, pull, sync, envVars,
                 loopVars, today_total, raceVars>>

\* Rotation: db::stop_session.
HbStop ==
  /\ hb.pc = "stop"
  /\ sessions' = StopSession(sessions, hb.pid, now)
  /\ hb' = [hb EXCEPT !.pc = "start"]
  /\ UNCHANGED <<now, users, projects, nextId, outboxVars, idleVars, pull,
                 sync, envVars,
                 loopVars, today_total, raceVars>>

\* Rotation: db::start_session, then the counters are reset.
HbStart ==
  /\ hb.pc = "start"
  /\ nextId <= MaxSessions
  /\ sessions' = StartSession(sessions, nextId, hb.pid, now)
  /\ nextId' = nextId + 1
  /\ keyboard_count' = 0
  /\ mouse_count' = 0
  /\ hb' = [hb EXCEPT !.pc = "refresh"]
  /\ UNCHANGED <<now, users, projects, outboxVars, is_monitoring,
                 last_activity_timestamp, pull, sync, envVars,
                 loopVars, today_total, raceVars>>

\* Rotation: get_active_session again.
HbRefresh ==
  /\ hb.pc = "refresh"
  /\ IF ActiveIds(sessions, hb.pid) # {}
     THEN \E sid \in ActiveIds(sessions, hb.pid) :
            hb' = [hb EXCEPT !.pc = "write", !.sid = sid]
     ELSE hb' = HbSleep
  /\ UNCHANGED <<now, dbVars, outboxVars, idleVars, pull, sync, envVars,
                 loopVars, today_total, raceVars>>

\* update_session_heartbeat on the id read earlier.
HbWrite ==
  /\ hb.pc = "write"
  /\ sessions' = UpdateSessionHeartbeat(sessions, hb.sid, now, keyboard_count,
                                        mouse_count)
  /\ hb' = HbSleep
  /\ UNCHANGED <<now, users, projects, nextId, outboxVars, idleVars, pull,
                 sync, envVars,
                 loopVars, today_total, raceVars>>

Tick ==
  /\ now + TickMs <= MaxTicks * TickMs
  /\ now' = now + TickMs
  /\ UNCHANGED <<dbVars, outboxVars, idleVars, hb, pull, sync, envVars,
                 loopVars, today_total, raceVars>>

(* --------------- screenshot.rs: pull reconciliation ------------------- *)
SyncSession(uuid, pid, st, en, act, idle, ded) ==
  [uuid |-> uuid, project_id |-> pid, start_time |-> st, end_time |-> en,
   is_active |-> act, idle_seconds |-> idle, deducted_seconds |-> ded]

\* What GET /client/sessions/today may hold: a session this device created
\* (uuid 1) or one from another device, still open or closed.
RemoteSessions ==
  {SyncSession(u, "p1", 0, NULL, TRUE, 0, 0) : u \in {1, ForeignUuid}}
  \cup {SyncSession(u, "p1", 0, 2 * TickMs, FALSE, 0, 0) : u \in {1, ForeignUuid}}

\* create_imported_session
CreateImportedSession(sess, id, r) ==
  sess @@ (id :> [uuid |-> r.uuid, project_id |-> r.project_id,
                  start_time |-> r.start_time, end_time |-> r.end_time,
                  is_active |-> r.is_active, idle_seconds |-> r.idle_seconds,
                  deducted_seconds |-> r.deducted_seconds, status |-> "done",
                  keyboard_events |-> 0, mouse_events |-> 0])

\* update_imported_session: UPDATE ... WHERE uuid = ?6
UpdateImportedSession(sess, r) ==
  [i \in DOMAIN sess |->
     IF sess[i].uuid = r.uuid
     THEN [sess[i] EXCEPT !.start_time = r.start_time,
                          !.end_time = r.end_time,
                          !.is_active = r.is_active,
                          !.idle_seconds = r.idle_seconds,
                          !.deducted_seconds = r.deducted_seconds,
                          !.status = "done"]
     ELSE sess[i]]

LocalDuration(l, t) ==
  IF l.end_time # NULL THEN l.end_time - l.start_time ELSE t - l.start_time

ServerDurationNow(r) ==
  IF r.end_time # NULL THEN r.end_time - r.start_time ELSE now - r.start_time

ServerDuration(r) ==
  IF r.end_time # NULL THEN r.end_time - r.start_time ELSE 0

\* What the merge of server session r does, given the rows `local` that
\* get_session_by_uuid returned.
MergeDecision(local, r, t) ==
  IF local = {} THEN "inserted"
  ELSE IF ServerDuration(r) > LocalDuration(CHOOSE l \in local : TRUE, t)
       THEN "updated"
       ELSE "kept"

\* The task reads the user; without one it ends.
PullBegin(t) ==
  /\ pull[t].pc = "start"
  /\ pull' = [pull EXCEPT ![t].pc = IF HasUser(users) THEN "fetch" ELSE "idle"]
  /\ UNCHANGED <<now, dbVars, outboxVars, idleVars, hb, sync, envVars,
                 loopVars, today_total, raceVars>>

\* The GET fails (status, network, body) ...
PullFail(t) ==
  /\ pull[t].pc = "fetch"
  /\ pull' = [pull EXCEPT ![t] = PullIdle]
  /\ UNCHANGED <<now, dbVars, outboxVars, idleVars, hb, sync, envVars,
                 loopVars, today_total, raceVars>>

\* ... or returns the server's sessions.  The server holds a session of
\* this device only after start_session generated its (fresh) uuid.
PullResponse(t, r) ==
  /\ pull[t].pc = "fetch"
  /\ r.uuid \in {ForeignUuid} \cup {u \in 1..MaxSessions : u < nextId}
  /\ pull' = [pull EXCEPT ![t].pc = "check", ![t].resp = <<r>>]
  /\ UNCHANGED <<now, dbVars, outboxVars, idleVars, hb, sync, envVars,
                 loopVars, today_total, raceVars>>

\* get_session_by_uuid for the next server session.
PullCheck(t) ==
  /\ pull[t].pc = "check"
  /\ LET found == {i \in DOMAIN sessions :
                     sessions[i].uuid = Head(pull[t].resp).uuid}
     IN  IF found = {}
         THEN pull' = [pull EXCEPT ![t].pc = "apply", ![t].local = {}]
         ELSE \E i \in found :
                pull' = [pull EXCEPT ![t].pc = "apply",
                                     ![t].local = {sessions[i]}]
  /\ UNCHANGED <<now, dbVars, outboxVars, idleVars, hb, sync, envVars,
                 loopVars, today_total, raceVars>>

\* The merge decision on what PullCheck read.
PullApply(t) ==
  /\ pull[t].pc = "apply"
  /\ LET r == Head(pull[t].resp)
         d == MergeDecision(pull[t].local, r, now)
     IN  /\ IF d = "inserted"
            THEN /\ nextId <= MaxSessions
                 /\ sessions' = CreateImportedSession(sessions, nextId, r)
                 /\ nextId' = nextId + 1
            ELSE /\ sessions' = IF d = "updated"
                                THEN UpdateImportedSession(sessions, r)
                                ELSE sessions
                 /\ nextId' = nextId
         /\ pull' = [pull EXCEPT ![t] =
                       IF Tail(pull[t].resp) = <<>>
                       THEN [PullIdle EXCEPT !.last = d]
                       ELSE [pc |-> "check", resp |-> Tail(pull[t].resp),
                             local |-> {}, last |-> d]]
  /\ UNCHANGED <<now, users, projects, outboxVars, idleVars, hb, sync, envVars,
                 loopVars, today_total, raceVars>>

(* ------------- activity.rs / screenshot.rs: the evidence -------------- *)
Evidence(uuid, pid) == [session_uuid |-> uuid, project_id |-> pid]

\* One pass of the activity loop while monitoring: get_user,
\* get_active_session, save_activity_log.
ActivitySample ==
  /\ activity_threads.sleep > 0
  /\ is_monitoring
  /\ HasProject(users)
  /\ nextLogId <= MaxLogs
  /\ \E sid \in ActiveIds(sessions, CurrentProject(users)) :
       activity_logs' = activity_logs @@
         (nextLogId :> Evidence(sessions[sid].uuid, CurrentProject(users)))
  /\ nextLogId' = nextLogId + 1
  /\ UNCHANGED <<now, dbVars, pending_screenshots, nextShotId, idleVars, hb,
                 pull, sync, envVars,
                 loopVars, today_total, raceVars>>

\* The test at the top of an iteration, after the sleep: the loop is left
\* when is_monitoring is false.
StaysInLoop(monitoring) == FALSE

LeavesLoop(monitoring) == ~monitoring

\* A loop thread wakes from its sleep with monitoring off: it leaves the
\* loop, the guard is not cleared yet.
ActivityLoopCheck ==
  /\ activity_threads.sleep > 0
  /\ LeavesLoop(is_monitoring)
  /\ activity_threads' = [activity_threads EXCEPT !.sleep = @ - 1,
                                                  !.exit = @ + 1]
  /\ UNCHANGED <<now, dbVars, outboxVars, idleVars, hb, pull, sync, envVars,
                 is_activity_loop_running, today_total, raceVars>>

\* The leaving thread clears the guard and ends.
ActivityLoopExit ==
  /\ activity_threads.exit > 0
  /\ is_activity_loop_running' = FALSE
  /\ activity_threads' = [activity_threads EXCEPT !.exit = @ - 1]
  /\ UNCHANGED <<now, dbVars, outboxVars, idleVars, hb, pull, sync, envVars,
                 today_total, raceVars>>

\* The capture the monitor thread dispatches to the main thread while
\* monitoring: get_user, get_active_session, save_pending_screenshot.
CaptureScreenshot ==
  /\ is_monitoring
  /\ HasProject(users)
  /\ nextShotId <= MaxShots
  /\ \E sid \in ActiveIds(sessions, CurrentProject(users)) :
       pending_screenshots' = pending_screenshots @@
         (nextShotId :> Evidence(sessions[sid].uuid, CurrentProject(users)))
  /\ nextShotId' = nextShotId + 1
  /\ UNCHANGED <<now, dbVars, activity_logs, nextLogId, idleVars, hb, pull,
                 sync, envVars,
                 loopVars, today_total, raceVars>>

(* ------------ screenshot.rs: upload_pending_screenshots --------------- *)
BulkOutcomes == {"ok", "unauthorized", "failed", "neterr"}
RefreshOutcomes == {"ok", "failed", "neterr", "badbody"}
RetryOutcomes == {"ok", "failed", "neterr"}
ShotOutcomes == {"ok", "failed", "neterr"}

SyncIdle ==
  [pc |-> "idle", user |-> "", token |-> "", pending_sess |-> {},
   session_logs |-> {}, pending_sc |-> {}, synced_session_uuids |-> {},
   results |-> <<>>, bulk |-> "none", refresh |-> "none", retry |-> "none"]

\* The task is over and its locals are dropped; the answers it got stay as
\* the record of the last cycle.
SyncEnd(s) ==
  [SyncIdle EXCEPT !.bulk = s.bulk, !.refresh = s.refresh, !.retry = s.retry,
                   !.results = s.results]

\* get_pending_sessions: SELECT ... FROM sessions (every row).
GetPendingSessions(sess) == {sess[i].uuid : i \in DOMAIN sess}

\* get_activity_logs_for_session for every session of the batch.
GetActivityLogs(logs, uuids) ==
  {l \in DOMAIN logs : logs[l].session_uuid \in uuids}

\* get_pending_screenshots: SELECT ... FROM pending_screenshots.
NoPendingScreenshots(shots) == {}

GetPendingScreenshots(shots) == DOMAIN shots

\* The batch of the retried POST: .json(&payload) with the payload built
\* before the first POST.
RetryBatchFresh(s, sess) == GetPendingSessions(sess)

RetryBatch(s, sess) == s.pending_sess

\* The sessions pushed to synced_session_uuids after a bulk response.
AllSynced(outcome, batch) == batch

SyncedAfter(outcome, batch) == IF outcome = "ok" THEN batch ELSE {}

\* uploaded_screenshot_ids: the ids whose task returned Some(id).
AllSettledIds(results) == DOMAIN results

UploadedScreenshotIds(results) ==
  {i \in DOMAIN results : results[i] = "ok"}

\* UPDATE sessions SET status = 'done' WHERE uuid = ?1, for each synced uuid.
MarkDone(sess, uuids) ==
  [i \in DOMAIN sess |->
     IF sess[i].uuid \in uuids THEN [sess[i] EXCEPT !.status = "done"]
     ELSE sess[i]]

\* delete_activity_logs_for_session, for each synced uuid.
DeleteActivityLogsForSessions(logs, uuids) ==
  [l \in {k \in DOMAIN logs : logs[k].session_uuid \notin uuids} |-> logs[l]]

\* DELETE FROM pending_screenshots WHERE id = ?1, for each uploaded id.
KeepScreenshots(shots, ids) == shots

DeleteScreenshots(shots, ids) ==
  [i \in DOMAIN shots \ ids |-> shots[i]]

\* Step 1: the snapshot.  Without a user the cycle ends at once.
SyncSnapshot ==
  /\ sync.pc = "idle"
  /\ sync' =
       IF HasUser(users)
       THEN [SyncIdle EXCEPT
               !.pc = IF GetPendingSessions(sessions) # {} THEN "bulk" ELSE "shots",
               !.user = GetUser(users).uuid,
               !.token = GetUser(users).token,
               !.pending_sess = GetPendingSessions(sessions),
               !.session_logs = GetActivityLogs(activity_logs,
                                                GetPendingSessions(sessions)),
               !.pending_sc = GetPendingScreenshots(pending_screenshots)]
       ELSE sync
  /\ UNCHANGED <<now, dbVars, outboxVars, idleVars, hb, pull, envVars,
                 loopVars, today_total, raceVars>>

\* Step 1 with failing reads.  get_user is read with .ok().flatten(), so its
\* failure ends the cycle like a missing user; get_pending_screenshots and
\* get_pending_sessions are read with unwrap_or_default(), so a failure is an
\* empty list; a failing get_activity_logs_for_session leaves the session in
\* the batch without an entry in session_logs.
SyncSnapshotStorage(okUser, okSc, okSess, badLogs) ==
  /\ sync.pc = "idle"
  /\ HasUser(users)
  /\ badLogs \subseteq GetPendingSessions(sessions)
  /\ <<okUser, okSc, okSess, badLogs>> # <<TRUE, TRUE, TRUE, {}>>
  /\ sync' =
       IF okUser
       THEN LET batch == IF okSess THEN GetPendingSessions(sessions) ELSE {}
            IN  [SyncIdle EXCEPT
                   !.pc = IF batch # {} THEN "bulk" ELSE "shots",
                   !.user = GetUser(users).uuid,
                   !.token = GetUser(users).token,
                   !.pending_sess = batch,
                   !.session_logs = GetActivityLogs(activity_logs,
                                                    batch \ badLogs),
                   !.pending_sc = IF okSc
                                  THEN GetPendingScreenshots(pending_screenshots)
                                  ELSE {}]
       ELSE sync
  /\ UNCHANGED <<now, dbVars, outboxVars, idleVars, hb, pull, envVars,
                 loopVars, today_total, raceVars>>

\* Step 2: the answer to POST /client/sessions.
SyncBulkResponse(o) ==
  /\ sync.pc = "bulk"
  /\ serverUp => o = "ok"
  /\ sync' = [sync EXCEPT
                !.bulk = o,
                !.synced_session_uuids = SyncedAfter(o, sync.pending_sess),
                !.pc = IF o = "unauthorized" THEN "refresh" ELSE "shots"]
  /\ ackedLogs' = IF o = "ok" THEN ackedLogs \cup sync.session_logs
                  ELSE ackedLogs
  /\ UNCHANGED <<now, dbVars, outboxVars, idleVars, hb, pull, serverUp,
                 ackedShots, logoutSignal, idlePrompt,
                 loopVars, today_total, raceVars>>

\* The 401 branch: the answer to POST /auth/refresh-token.  A 2xx answer
\* with a token is stored (UPDATE users SET token WHERE uuid) and the batch
\* is retried; a non-2xx answer emits logout-user, runs clear_user and ends
\* the cycle; a network error or a body without a token is only logged.
SyncRefreshResponse(o, tok) ==
  /\ sync.pc = "refresh"
  /\ IF o = "ok"
     THEN /\ users' = UpdateToken(users, tok, sync.user)
          /\ sync' = [sync EXCEPT !.refresh = o, !.token = tok, !.pc = "retry",
                                  !.pending_sess = RetryBatch(sync, sessions)]
          /\ UNCHANGED <<projects, sessions, logoutSignal>>
     ELSE IF o = "failed"
     THEN /\ logoutSignal' = TRUE
          /\ users' = {}
          /\ projects' = {}
          /\ sessions' = ClearUserSessions(sessions)
          /\ sync' = SyncEnd([sync EXCEPT !.refresh = o])
     ELSE /\ sync' = [sync EXCEPT !.refresh = o, !.pc = "shots"]
          /\ UNCHANGED <<users, projects, sessions, logoutSignal>>
  /\ UNCHANGED <<now, nextId, outboxVars, idleVars, hb, pull, serverUp,
                 ackedLogs, ackedShots, idlePrompt,
                 loopVars, today_total, raceVars>>

\* The answer to the retried POST /client/sessions.
SyncRetryResponse(o) ==
  /\ sync.pc = "retry"
  /\ serverUp => o = "ok"
  /\ sync' = [sync EXCEPT
                !.retry = o,
                !.synced_session_uuids = SyncedAfter(o, sync.pending_sess),
                !.pc = "shots"]
  /\ ackedLogs' = IF o = "ok" THEN ackedLogs \cup sync.session_logs
                  ELSE ackedLogs
  /\ UNCHANGED <<now, dbVars, outboxVars, idleVars, hb, pull, serverUp,
                 ackedShots, logoutSignal, idlePrompt,
                 loopVars, today_total, raceVars>>

\* Step 3: the answer to one screenshot's POST /client/screenshots; the
\* tasks run in parallel and finish in any order.
SyncShotResponse(id, o) ==
  /\ sync.pc = "shots"
  /\ id \in sync.pending_sc \ DOMAIN sync.results
  /\ serverUp => o = "ok"
  /\ sync' = [sync EXCEPT !.results = @ @@ (id :> o)]
  /\ ackedShots' = IF o = "ok" THEN ackedShots \cup {id} ELSE ackedShots
  /\ UNCHANGED <<now, dbVars, outboxVars, idleVars, hb, pull, serverUp,
                 ackedLogs, logoutSignal, idlePrompt,
                 loopVars, today_total, raceVars>>

\* Step 4: every handle is collected; the transaction runs when a session
\* was synced or a screenshot uploaded.
SyncCommit ==
  /\ sync.pc = "shots"
  /\ DOMAIN sync.results = sync.pending_sc
  /\ IF sync.synced_session_uuids # {}
        \/ UploadedScreenshotIds(sync.results) # {}
     THEN /\ sessions' = MarkDone(sessions, sync.synced_session_uuids)
          /\ activity_logs' =
               DeleteActivityLogsForSessions(activity_logs,
                                             sync.synced_session_uuids)
          /\ pending_screenshots' =
               DeleteScreenshots(pending_screenshots,
                                 UploadedScreenshotIds(sync.results))
     ELSE UNCHANGED <<sessions, activity_logs, pending_screenshots>>
  /\ sync' = SyncEnd(sync)
  /\ UNCHANGED <<now, users, projects, nextId, nextLogId, nextShotId,
                 idleVars, hb, pull, envVars,
                 loopVars, today_total, raceVars>>

\* Step 4 with storage failures.  Every statement of the transaction is
\* run as `let _ = tx.execute(..)`: a statement that fails is skipped and
\* the next one runs; okUpd, okDel and okShots are the statements that
\* succeed.  `let _ = tx.commit()`: a failed commit rolls everything back.
SyncCommitStorage(okUpd, okDel, okShots, committed) ==
  /\ sync.pc = "shots"
  /\ DOMAIN sync.results = sync.pending_sc
  /\ sync.synced_session_uuids \cup UploadedScreenshotIds(sync.results) # {}
  /\ okUpd \subseteq sync.synced_session_uuids
  /\ okDel \subseteq sync.synced_session_uuids
  /\ okShots \subseteq UploadedScreenshotIds(sync.results)
  /\ <<committed, okUpd, okDel, okShots>> #
       <<TRUE, sync.synced_session_uuids, sync.synced_session_uuids,
         UploadedScreenshotIds(sync.results)>>
  /\ IF committed
     THEN /\ sessions' = MarkDone(sessions, okUpd)
          /\ activity_logs' = DeleteActivityLogsForSessions(activity_logs, okDel)
          /\ pending_screenshots' = DeleteScreenshots(pending_screenshots, okShots)
     ELSE UNCHANGED <<sessions, activity_logs, pending_screenshots>>
  /\ sync' = SyncEnd(sync)
  /\ UNCHANGED <<now, users, projects, nextId, nextLogId, nextShotId,
                 idleVars, hb, pull, envVars,
                 loopVars, today_total, raceVars>>

\* From here on the remote service acknowledges every upload.
ServerRecover ==
  /\ ~serverUp
  /\ serverUp' = TRUE
  /\ UNCHANGED <<now, dbVars, outboxVars, idleVars, hb, pull, sync, ackedLogs,
                 ackedShots, logoutSignal, idlePrompt,
                 loopVars, today_total, raceVars>>

(* ----------------------------- the system ----------------------------- *)
\* The state after run()'s setup: a store that is empty or holds the user of
\* an earlier run, the startup pull task spawned, no timer running.
Init ==
  /\ now = 0
  /\ users \in {{}, {User("u1", LoginToken("u1"), "p1")}}
  /\ projects = IF users = {} THEN {} ELSE UserProjects("u1")
  /\ sessions = <<>>
  /\ nextId = 1
  /\ activity_logs = <<>>
  /\ nextLogId = 1
  /\ pending_screenshots = <<>>
  /\ nextShotId = 1
  /\ is_monitoring = FALSE
  /\ last_activity_timestamp = 0
  /\ keyboard_count = 0
  /\ mouse_count = 0
  /\ hb = HbSleep
  /\ pull = [t \in PullTasks |->
               IF t = "startup" THEN [PullIdle EXCEPT !.pc = "start"] ELSE PullIdle]
  /\ sync = SyncIdle
  /\ serverUp = FALSE
  /\ ackedLogs = {}
  /\ ackedShots = {}
  /\ logoutSignal = FALSE
  /\ idlePrompt = NULL
  /\ is_activity_loop_running = FALSE
  /\ activity_threads = NoThreads
  /\ today_total = NoTotal
  /\ start_pc = "idle"
  /\ idle_event = NULL
  /\ quitting = FALSE

\* The session manager working on project p1: the main-thread handlers, the
\* OS listener, the heartbeat thread and the clock.
Next ==
  \/ \E cp \in {NoProject, "p1"} : Login("u1", cp)
  \/ Logout
  \/ SetCurrentProject("p1")
  \/ StartTimer
  \/ StopTimer
  \/ \E d \in {idlePrompt} \cup OtherIdleTimes, keep \in BOOLEAN :
       ProcessIdleChoice(d, keep)
  \/ OsInput("other")
  \/ HbRead
  \/ HbStop
  \/ HbStart
  \/ HbRefresh
  \/ HbWrite
  \/ Tick

Spec == Init /\ [][Next]_vars

\* The sync engine: one user on project p1 who logs in and out, starts and
\* stops the timer, the evidence producers and the sync cycle with every
\* answer the remote service can give.
SyncStep ==
  \/ SyncSnapshot
  \/ \E o \in BulkOutcomes : SyncBulkResponse(o)
  \/ \E o \in RefreshOutcomes, tok \in RefreshTokens : SyncRefreshResponse(o, tok)
  \/ \E o \in RetryOutcomes : SyncRetryResponse(o)
  \/ \E id \in DOMAIN pending_screenshots, o \in ShotOutcomes :
       SyncShotResponse(id, o)
  \/ SyncCommit

NextSync ==
  \/ Login("u1", "p1")
  \/ Logout
  \/ (nextId <= MaxSyncSessions /\ StartTimer)
  \/ StopTimer
  \/ ActivitySample
  \/ CaptureScreenshot
  \/ SyncStep

SpecSync == Init /\ [][NextSync]_vars

\* The sync loop of a user who stays logged in.  The monitor thread starts
\* a cycle every 180 s for as long as the application runs, and every
\* request of a cycle is answered.
NextLive ==
  \/ (nextId <= MaxSyncSessions /\ StartTimer)
  \/ StopTimer
  \/ CaptureScreenshot
  \/ SyncStep
  \/ ServerRecover

SpecLive == Init /\ [][NextLive]_vars /\ WF_vars(SyncStep)

\* get_project_today_total on the stores the session manager can leave
\* behind: up to MaxTotalRows sessions of two projects, started before, at or
\* after midnight of the current day, closed or still active, with a
\* deduction below or above their duration.
TotalNow == DayMs + 4700
TotalStarts == {DayMs - MsPerSecond, DayMs, DayMs + 1500}
TotalEnd == DayMs + 3900
TotalDeductions == {0, 1, 5}
TotalRows ==
  {[NewSession(0, pid, st) EXCEPT !.is_active = act,
                                  !.end_time = IF act THEN NULL ELSE TotalEnd,
                                  !.idle_seconds = ded,
                                  !.deducted_seconds = ded] :
     pid \in Projects, st \in TotalStarts, act \in BOOLEAN,
     ded \in TotalDeductions}

InitTotal ==
  /\ now = TotalNow
  /\ users = {User("u1", LoginToken("u1"), "p1")}
  /\ projects = UserProjects("u1")
  /\ \E n \in 0..MaxTotalRows :
       /\ sessions \in [1..n -> TotalRows]
       /\ nextId = n + 1
  /\ activity_logs = <<>>
  /\ nextLogId = 1
  /\ pending_screenshots = <<>>
  /\ nextShotId = 1
  /\ is_monitoring = FALSE
  /\ last_activity_timestamp = 0
  /\ keyboard_count = 0
  /\ mouse_count = 0
  /\ hb = HbSleep
  /\ pull = [t \in PullTasks |-> PullIdle]
  /\ sync = SyncIdle
  /\ serverUp = FALSE
  /\ ackedLogs = {}
  /\ ackedShots = {}
  /\ logoutSignal = FALSE
  /\ idlePrompt = NULL
  /\ is_activity_loop_running = FALSE
  /\ activity_threads = NoThreads
  /\ today_total = NoTotal
  /\ start_pc = "idle"
  /\ idle_event = NULL
  /\ quitting = FALSE

NextTotal == \E pid \in Projects : GetProjectTodayTotal(pid)

SpecTotal == InitTotal /\ [][NextTotal]_vars

\* The activity loop and the handlers that start it and switch monitoring.
NextLoop ==
  \/ Login("u1", "p1")
  \/ Logout
  \/ StartTimer
  \/ StopTimer
  \/ ActivitySample
  \/ ActivityLoopCheck
  \/ ActivityLoopExit

SpecLoop == Init /\ [][NextLoop]_vars

\* The loop thread wakes from every sleep: its test and its exit are taken
\* whenever they stay possible.
SpecLoopLive ==
  Init /\ [][NextLoop]_vars
       /\ WF_vars(ActivityLoopCheck) /\ WF_vars(ActivityLoopExit)

\* Pull reconciliation next to the session manager: the startup task and
\* the task a login spawns run while the timer is used.
PullStep ==
  \E t \in PullTasks :
    \/ PullBegin(t)
    \/ PullFail(t)
    \/ \E r \in RemoteSessions : PullResponse(t, r)
    \/ PullCheck(t)
    \/ PullApply(t)

NextPull ==
  \/ Login("u1", "p1")
  \/ (nextId <= MaxSyncSessions /\ StartTimer)
  \/ StopTimer
  \/ OsInput("other")
  \/ \E keep \in BOOLEAN : ProcessIdleChoice(idlePrompt, keep)
  \/ Tick
  \/ PullStep

SpecPull == Init /\ [][NextPull]_vars

\* The handlers that test for a user and a selected project, with logins
\* that select a project or none.
NextGuard ==
  \/ \E cp \in {NoProject, "p1"} : Login("u1", cp)
  \/ Logout
  \/ (nextId <= MaxSyncSessions /\ StartTimer)
  \/ StopTimer
  \/ OsInput("other")
  \/ \E keep \in BOOLEAN : ProcessIdleChoice(idlePrompt, keep)
  \/ Tick
  \/ SyncSnapshot
  \/ \E o \in {"ok", "failed"} : SyncBulkResponse(o)
  \/ SyncCommit

SpecGuard == Init /\ [][NextGuard]_vars

\* The pull tasks of a running application: every task that was spawned
\* runs to its end; a new one is spawned only by a login.
NextPullLive ==
  \/ Login("u1", "p1")
  \/ (nextId <= MaxSyncSessions /\ StartTimer)
  \/ StopTimer
  \/ Tick
  \/ PullStep

SpecPullLive == Init /\ [][NextPullLive]_vars /\ WF_vars(PullStep)

\* The clock of the rotation study: it runs one tick past the rotation
\* threshold, so that time can pass inside a rotation.
TickRotation ==
  /\ now + TickMs <= MaxRotationTicks * TickMs
  /\ now' = now + TickMs
  /\ UNCHANGED <<dbVars, outboxVars, idleVars, hb, pull, sync, envVars,
                 loopVars, today_total, raceVars>>

\* The timer commands, the heartbeat thread with its rotation, the daily
\* total query and the clock.
NextRotate ==
  \/ Login("u1", "p1")
  \/ (nextId <= MaxSyncSessions /\ StartTimer)
  \/ StopTimer
  \/ HbRead
  \/ HbStop
  \/ HbStart
  \/ HbRefresh
  \/ HbWrite
  \/ GetProjectTodayTotal("p1")
  \/ TickRotation

SpecRotate == Init /\ [][NextRotate]_vars

\* The sync loop with the evidence producers running while cycles run;
\* every started cycle step is eventually taken.
NextLiveLogs ==
  \/ (nextId <= MaxSyncSessions /\ StartTimer)
  \/ StopTimer
  \/ ActivitySample
  \/ CaptureScreenshot
  \/ SyncStep
  \/ ServerRecover

SpecLiveLogs == Init /\ [][NextLiveLogs]_vars /\ WF_vars(SyncStep)

\* The process dies and is started again dt ticks later.  The store on disk
\* survives; everything in memory is what run()'s setup makes of it, and the
\* setup calls stop_timer_internal, whose stop_session reads the clock at
\* startup.
Restart(dt) ==
  /\ now + dt * TickMs <= MaxRotationTicks * TickMs
  /\ now' = now + dt * TickMs
  /\ sessions' = IF HasProject(users)
                 THEN StopSession(sessions, CurrentProject(users), now')
                 ELSE sessions
  /\ is_monitoring' = FALSE
  /\ last_activity_timestamp' = now' \div MsPerSecond
  /\ keyboard_count' = 0
  /\ mouse_count' = 0
  /\ hb' = HbSleep
  /\ pull' = [t \in PullTasks |->
                IF t = "startup" THEN [PullIdle EXCEPT !.pc = "start"]
                ELSE PullIdle]
  /\ sync' = SyncIdle
  /\ logoutSignal' = FALSE
  /\ idlePrompt' = NULL
  /\ is_activity_loop_running' = FALSE
  /\ activity_threads' = NoThreads
  /\ today_total' = NoTotal
  /\ start_pc' = "idle"
  /\ idle_event' = NULL
  /\ quitting' = FALSE
  /\ UNCHANGED <<users, projects, nextId, outboxVars, serverUp, ackedLogs,
                 ackedShots>>

\* A timer that runs with its heartbeat, the daily total query, the clock,
\* and the process dying and starting again.
NextCrash ==
  \/ Login("u1", "p1")
  \/ (nextId <= MaxSyncSessions /\ StartTimer)
  \/ StopTimer
  \/ HbRead
  \/ HbStop
  \/ HbStart
  \/ HbRefresh
  \/ HbWrite
  \/ GetProjectTodayTotal("p1")
  \/ TickRotation
  \/ \E dt \in 1..MaxDownTicks : Restart(dt)

SpecCrash == Init /\ [][NextCrash]_vars

\* A user who switches between the projects while starting and stopping the
\* timer and asking for the daily totals.
NextProjects ==
  \/ Login("u1", "p1")
  \/ \E pid \in Projects : SetCurrentProject(pid)
  \/ StartTimer
  \/ StopTimer
  \/ \E pid \in Projects : GetProjectTodayTotal(pid)
  \/ Tick

SpecProjects == Init /\ [][NextProjects]_vars

\* start_timer_internal at the grain of its stores: up to and including
\* is_monitoring.store(true) ...
StartTimerBegin ==
  /\ start_pc = "idle"
  /\ HasProject(users)
  /\ ActiveIds(sessions, CurrentProject(users)) = {}
  /\ nextId <= MaxSyncSessions
  /\ sessions' = StartSession(sessions, nextId, CurrentProject(users), now)
  /\ nextId' = nextId + 1
  /\ is_monitoring' = TRUE
  /\ start_pc' = "stamp"
  /\ UNCHANGED <<now, users, projects, outboxVars, last_activity_timestamp,
                 keyboard_count, mouse_count, hb, pull, sync, envVars,
                 loopVars, today_total, idle_event, quitting>>

\* ... and from last_activity_timestamp.store(now) to its end.
StartTimerFinish ==
  /\ start_pc = "stamp"
  /\ last_activity_timestamp' = now \div MsPerSecond
  /\ keyboard_count' = 0
  /\ mouse_count' = 0
  /\ StartActivityLoop
  /\ start_pc' = "idle"
  /\ UNCHANGED <<now, dbVars, outboxVars, is_monitoring, hb, pull, sync,
                 envVars, today_total, idle_event, quitting>>

\* The event-tap callback on the listener thread: the monitoring test, the
\* swap of last_activity_timestamp, the counters, and for a gap of at least
\* the threshold the emit of internal:idle_gap_detected, which is queued for
\* the main thread.
OsCallback(kind) ==
  /\ is_monitoring
  /\ kind = "key" => keyboard_count < MaxCount
  /\ kind = "mouse" => mouse_count < MaxCount
  /\ last_activity_timestamp' = now \div MsPerSecond
  /\ keyboard_count' = IF kind = "key" THEN keyboard_count + 1 ELSE keyboard_count
  /\ mouse_count' = IF kind = "mouse" THEN mouse_count + 1 ELSE mouse_count
  /\ idle_event' =
       IF SaturatingSub(now \div MsPerSecond, last_activity_timestamp)
            >= IdleThresholdSecs
       THEN SaturatingSub(now \div MsPerSecond, last_activity_timestamp)
       ELSE idle_event
  /\ UNCHANGED <<now, dbVars, outboxVars, is_monitoring, hb, pull, sync,
                 envVars, loopVars, today_total, start_pc, quitting>>

\* The listener of internal:idle_gap_detected on the main thread:
\* stop_timer_internal, then the idle window with the duration.
IdleGapListener ==
  /\ start_pc = "idle"
  /\ idle_event # NULL
  /\ StopTimerInternal
  /\ idlePrompt' = idle_event
  /\ idle_event' = NULL
  /\ UNCHANGED <<now, users, projects, nextId, outboxVars,
                 last_activity_timestamp, keyboard_count, mouse_count, hb,
                 pull, sync, serverUp, ackedLogs, ackedShots, logoutSignal,
                 loopVars, today_total, start_pc, quitting>>

\* The timer commands on the main thread and the listener thread's callback,
\* which can run between any two stores of a start.
NextIdleRace ==
  \/ Login("u1", "p1")
  \/ StartTimerBegin
  \/ StartTimerFinish
  \/ (start_pc = "idle" /\ StopTimer)
  \/ \E kind \in InputKinds : OsCallback(kind)
  \/ IdleGapListener
  \/ Tick

SpecIdleRace == Init /\ [][NextIdleRace]_vars

\* upload_and_quit, offered by the quit window, which the ExitRequested
\* handler shows when get_pending_screenshots is not empty: it spawns the
\* task of a new sync cycle and calls std::process::exit(0).  The task has
\* not run yet; the process ends at whatever point the task has reached by
\* then.
UploadAndQuit ==
  /\ ~quitting
  /\ sync.pc = "idle"
  /\ pending_screenshots # <<>>
  /\ quitting' = TRUE
  /\ sync' = SyncIdle
  /\ UNCHANGED <<now, dbVars, outboxVars, idleVars, hb, pull, envVars,
                 loopVars, today_total, start_pc, idle_event>>

\* The sync cycle, the evidence producers, upload_and_quit and the end of
\* the process it calls for, followed by the next start.
NextQuit ==
  \/ Login("u1", "p1")
  \/ (nextId <= MaxSyncSessions /\ StartTimer)
  \/ StopTimer
  \/ CaptureScreenshot
  \/ SyncSnapshot
  \/ \E o \in {"ok", "failed"} : SyncBulkResponse(o)
  \/ \E id \in DOMAIN pending_screenshots, o \in ShotOutcomes :
       SyncShotResponse(id, o)
  \/ SyncCommit
  \/ UploadAndQuit
  \/ \E dt \in 1..MaxDownTicks : (quitting /\ Restart(dt))

SpecQuit == Init /\ [][NextQuit]_vars

\* The sync cycle on a store whose reads can fail during the snapshot.
NextSnapshot ==
  \/ (nextId <= MaxSyncSessions /\ StartTimer)
  \/ StopTimer
  \/ ActivitySample
  \/ CaptureScreenshot
  \/ SyncSnapshot
  \/ \E okUser, okSc, okSess \in BOOLEAN,
        badLogs \in SUBSET GetPendingSessions(sessions) :
       SyncSnapshotStorage(okUser, okSc, okSess, badLogs)
  \/ \E o \in {"ok", "failed"} : SyncBulkResponse(o)
  \/ \E id \in DOMAIN pending_screenshots, o \in ShotOutcomes :
       SyncShotResponse(id, o)
  \/ SyncCommit

SpecSnapshot == Init /\ [][NextSnapshot]_vars

\* The sync cycle on a store whose statements can fail.
NextStore ==
  \/ (nextId <= MaxSyncSessions /\ StartTimer)
  \/ StopTimer
  \/ ActivitySample
  \/ CaptureScreenshot
  \/ SyncStep
  \/ \E okUpd, okDel \in SUBSET sync.synced_session_uuids,
        okShots \in SUBSET DOMAIN sync.results, committed \in BOOLEAN :
       SyncCommitStorage(okUpd, okDel, okShots, committed)

SpecStore == Init /\ [][NextStore]_vars

(* ======================= session manager claims ======================= *)

\* C1: in every reachable state every project has at most one session row
\* with is_active = true.
C1_AtMostOneActivePerProject ==
  \A p \in Projects : Cardinality(ActiveIds(sessions, p)) <= 1

\* C4: in every reachable state every session row has
\* deducted_seconds <= idle_seconds.
C4_DeductedLeIdle ==
  \A i \in DOMAIN sessions :
    sessions[i].deducted_seconds <= sessions[i].idle_seconds

\* The rows of project p that started last.
MostRecentlyStarted(sess, p) ==
  {i \in DOMAIN sess :
     /\ sess[i].project_id = p
     /\ \A j \in DOMAIN sess :
          sess[j].project_id = p => sess[j].start_time <= sess[i].start_time}

\* The sessions table an idle decision on row target leaves behind: the
\* adjustment, then the restart when no session of p is active.
AfterIdleDecision(target, p, d, keep) ==
  LET upd == [i \in DOMAIN sessions |->
                IF i = target
                THEN [sessions[i] EXCEPT
                        !.idle_seconds = @ + d,
                        !.deducted_seconds = @ + (IF keep THEN 0 ELSE d)]
                ELSE sessions[i]]
  IN  IF \E i \in DOMAIN upd : upd[i].project_id = p /\ upd[i].is_active
      THEN upd
      ELSE upd @@ (nextId :> NewSession(nextId, p, now))

\* C5: when the idle gap d shown by the idle window is discarded, today's
\* total of the project is d seconds lower than a keep decision would have
\* left it in the same state.
C5_DiscardExcludesWholeGap ==
  [][(HasProject(users) /\ idlePrompt # NULL
      /\ ProcessIdleChoice(idlePrompt, FALSE))
     => \E target \in MostRecentlyStarted(sessions, CurrentProject(users)) \cup {NULL} :
          /\ sessions' = AfterIdleDecision(target, CurrentProject(users),
                                           idlePrompt, FALSE)
          /\ GetTodayTotalTime(sessions', CurrentProject(users), now)
               = GetTodayTotalTime(
                   AfterIdleDecision(target, CurrentProject(users),
                                     idlePrompt, TRUE),
                   CurrentProject(users), now) - idlePrompt]_vars

\* What C6 asks of one idle decision (d, keep) on project p.
IdleDecisionPost(p, d, keep) ==
  /\ DOMAIN sessions \subseteq DOMAIN sessions'
  /\ IF MostRecentlyStarted(sessions, p) = {}
     THEN \A i \in DOMAIN sessions : sessions'[i] = sessions[i]
     ELSE \E t \in MostRecentlyStarted(sessions, p) :
            /\ sessions'[t] =
                 [sessions[t] EXCEPT
                    !.idle_seconds = @ + d,
                    !.deducted_seconds = @ + (IF keep THEN 0 ELSE d)]
            /\ \A i \in DOMAIN sessions \ {t} : sessions'[i] = sessions[i]
  /\ \E i \in DOMAIN sessions' :
       sessions'[i].project_id = p /\ sessions'[i].is_active

\* C6: an idle decision with gap d taken while a project is selected adds d
\* to idle_seconds of the most recently started session of the project, adds
\* d (discard) or 0 (keep) to its deducted_seconds, changes no other session
\* row, and leaves the project with an active session.
C6_IdleDecisionEffect ==
  [][\A d \in {idlePrompt} \cup OtherIdleTimes, keep \in BOOLEAN :
       (HasProject(users) /\ ProcessIdleChoice(d, keep))
       => IdleDecisionPost(CurrentProject(users), d, keep)]_vars

\* C6 witness: a discarded gap sits on the later of two sessions of p1, the
\* earlier one is untouched, and p1 has an active session.
C6_Witness ==
  \E i, j \in DOMAIN sessions :
     /\ sessions[i].project_id = "p1" /\ sessions[j].project_id = "p1"
     /\ sessions[i].start_time < sessions[j].start_time
     /\ sessions[i].idle_seconds = 0
     /\ sessions[j].idle_seconds >= IdleThresholdSecs
     /\ sessions[j].deducted_seconds = sessions[j].idle_seconds
     /\ ActiveIds(sessions, "p1") # {}

(* ========================= sync engine claims ========================= *)

\* C2: an activity-log row or a pending-screenshot row is gone from the
\* local store only if a request that carried it was answered 2xx.
C2_DeletedOnlyIfAcknowledged ==
  /\ \A l \in 1..(nextLogId - 1) :
       l \notin DOMAIN activity_logs => l \in ackedLogs
  /\ \A i \in 1..(nextShotId - 1) :
       i \notin DOMAIN pending_screenshots => i \in ackedShots

SessionPending(i) ==
  i \in DOMAIN sessions /\ sessions[i].status = "pending"

\* C3: a cycle started for a logged-in user carries every stored screenshot,
\* and once the service acknowledges every upload, every pending screenshot
\* and every pending session leaves the pending set unless the user is gone.
C3_RetriedUntilConfirmed ==
  /\ [][(sync.pc = "idle" /\ sync'.pc # "idle")
        => sync'.pending_sc = DOMAIN pending_screenshots]_vars
  /\ \A id \in 1..MaxShots :
       (serverUp /\ id \in DOMAIN pending_screenshots)
         ~> (id \notin DOMAIN pending_screenshots \/ users = {})
  /\ \A i \in 1..MaxSyncSessions :
       (serverUp /\ SessionPending(i)) ~> (~SessionPending(i) \/ users = {})

\* C3 witness: with the service acknowledging, a screenshot that was stored
\* has been uploaded and removed and a session is done, the user still
\* logged in and nothing left pending.
C3_Witness ==
  /\ serverUp /\ HasUser(users)
  /\ nextShotId > 1 /\ pending_screenshots = <<>>
  /\ \A i \in 1..(nextShotId - 1) : i \in ackedShots
  /\ sessions # <<>>
  /\ \A i \in DOMAIN sessions : sessions[i].status = "done"

\* The cycle whose bulk upload got 401, whose refresh succeeded and whose
\* retry got 2xx.
Cycle401Resolved(s) ==
  s.bulk = "unauthorized" /\ s.refresh = "ok" /\ s.retry = "ok"

BatchDone(sess, batch) ==
  \A i \in DOMAIN sess : sess[i].uuid \in batch => sess[i].status = "done"

\* C7 as stated: when a cycle with 401, successful refresh and 2xx retry
\* ends, every session of the batch is done and the token stored for the
\* user is the refreshed token.
C7_TokenIsRefreshedAtCycleEnd ==
  [][(Cycle401Resolved(sync) /\ sync.pc = "shots" /\ sync'.pc = "idle")
     => /\ BatchDone(sessions', sync.pending_sess)
        /\ \A u \in users' : u.token = sync.token]_vars

\* C7 amended: the refresh step stores the refreshed token in the row of the
\* user the cycle was started for, no later step of the cycle touches the
\* users table, and when the cycle ends every stored session of the batch
\* is done.
C7_RefreshStoredAndBatchDone ==
  [][/\ (sync.pc = "refresh" /\ sync'.pc = "retry")
          => /\ sync'.token \in RefreshTokens
             /\ \A u \in users' : u.uuid = sync.user => u.token = sync'.token
             /\ \A u \in users : u.uuid = sync.user
                   => [u EXCEPT !.token = sync'.token] \in users'
     /\ (sync.refresh = "ok" /\ sync' # sync) => users' = users
     /\ (Cycle401Resolved(sync) /\ sync.pc = "shots" /\ sync'.pc = "idle")
          => BatchDone(sessions', sync.pending_sess)]_vars

\* C7 witness: the last cycle got 401, refreshed and retried with success;
\* the stored token is the refreshed one and the stored sessions are done.
C7_Witness ==
  /\ sync.pc = "idle" /\ Cycle401Resolved(sync)
  /\ \E u \in users : u.token \in RefreshTokens
  /\ sessions # <<>>
  /\ \A i \in DOMAIN sessions : sessions[i].status = "done"

\* C8: when the 401 is not resolved by one refresh (the refresh gets a
\* non-2xx answer, a network error or an unusable body, or the retry fails),
\* that step emits the logout signal, clears users and sessions and ends the
\* cycle.
C8_UnresolvedAborts ==
  [][((sync.pc = "refresh" /\ sync'.refresh \in RefreshOutcomes \ {"ok"})
      \/ (sync.pc = "retry" /\ sync'.retry \in RetryOutcomes \ {"ok"}))
     => /\ logoutSignal'
        /\ users' = {}
        /\ sessions' = <<>>
        /\ sync'.pc = "idle"]_vars

BulkFailed(s) == s.bulk \in {"failed", "neterr"}

\* C9: when the bulk upload fails with a non-2xx status other than 401 or a
\* network error, the cycle changes no session and deletes no activity log,
\* goes on to the screenshot uploads, and its commit removes the screenshots
\* that were uploaded.
C9_BulkFailureIsolated ==
  [][/\ (sync.pc = "bulk" /\ BulkFailed(sync'))
          => /\ sync'.pc = "shots"
             /\ sync'.synced_session_uuids = {}
     /\ (BulkFailed(sync) /\ sync' # sync)
          => /\ sessions' = sessions
             /\ activity_logs' = activity_logs
     /\ (BulkFailed(sync) /\ sync.pc = "shots" /\ sync'.pc = "idle")
          => DOMAIN pending_screenshots' =
               DOMAIN pending_screenshots
                 \ {i \in DOMAIN sync.results : sync.results[i] = "ok"}]_vars

\* C9 witness: the last cycle's bulk upload failed; the session is still
\* pending, its activity log is still stored, and an uploaded screenshot is
\* gone.
C9_Witness ==
  /\ sync.pc = "idle" /\ BulkFailed(sync)
  /\ \E i \in DOMAIN sessions : sessions[i].status = "pending"
  /\ \E l \in DOMAIN activity_logs : l \notin ackedLogs
  /\ \E i \in DOMAIN sync.results :
       sync.results[i] = "ok" /\ i \notin DOMAIN pending_screenshots

\* C10: the commit deletes exactly the screenshots whose own upload got 2xx;
\* every other screenshot is still stored, unchanged, after the cycle.
C10_CommitDeletesExactlyUploaded ==
  [][(sync.pc = "shots" /\ sync'.pc = "idle")
     => \A id \in DOMAIN pending_screenshots :
          IF id \in DOMAIN sync.results /\ sync.results[id] = "ok"
          THEN id \notin DOMAIN pending_screenshots'
          ELSE /\ id \in DOMAIN pending_screenshots'
               /\ pending_screenshots'[id] = pending_screenshots[id]]_vars

\* C10 witness: of two screenshots of the last cycle one was uploaded and is
\* gone, the other's upload failed and it is still stored.
C10_Witness ==
  /\ sync.pc = "idle"
  /\ \E i, j \in DOMAIN sync.results :
       /\ sync.results[i] = "ok" /\ i \notin DOMAIN pending_screenshots
       /\ sync.results[j] # "ok" /\ j \in DOMAIN pending_screenshots

(* ===================== sync engine claims, continued ================== *)

\* The snapshotted logs of the session with identifier u.
SnapshotLogsOf(u) ==
  {l \in sync.session_logs :
     l \in DOMAIN activity_logs /\ activity_logs[l].session_uuid = u}

\* C11: after a commit step, with or without a storage failure on one of
\* its statements, no session of the batch has lost snapshotted logs while
\* its status is still pending, and none was marked done while snapshotted
\* logs of it remain.
C11_MarkDoneAndDeleteLogsTogether ==
  [][(sync.pc = "shots" /\ sync'.pc = "idle")
     => \A i \in DOMAIN sessions :
          sessions[i].uuid \in sync.pending_sess
          => /\ ~(/\ sessions'[i].status = "pending"
                  /\ \E l \in SnapshotLogsOf(sessions[i].uuid) :
                       l \notin DOMAIN activity_logs')
             /\ ~(/\ sessions[i].status = "pending"
                  /\ sessions'[i].status = "done"
                  /\ \E l \in SnapshotLogsOf(sessions[i].uuid) :
                       l \in DOMAIN activity_logs')]_vars

\* The outbox is empty: no session with status pending, no pending
\* screenshot, no activity log.
OutboxEmpty ==
  /\ \A i \in DOMAIN sessions : sessions[i].status # "pending"
  /\ pending_screenshots = <<>>
  /\ activity_logs = <<>>

\* C12: a sync cycle that starts on an empty outbox sends no request: its
\* snapshot step leaves nothing to post (no bulk upload, no screenshot
\* upload) and changes nothing in the local store.
C12_EmptyOutboxSendsNothing ==
  [][(sync.pc = "idle" /\ OutboxEmpty)
     => /\ sync'.pc # "bulk"
        /\ sync'.pending_sc = {}
        /\ sync'.pc \in {"idle", "shots"}
        /\ UNCHANGED <<dbVars, outboxVars>>]_<<sync>>

\* C13: the batch taken at the snapshot step is exactly the set of the
\* sessions whose status is pending; a session with status done is in no
\* batch.
C13_BatchIsPendingSessions ==
  [][(sync.pc = "idle" /\ sync'.pc # "idle")
     => sync'.pending_sess =
          {sessions[i].uuid :
             i \in {j \in DOMAIN sessions : sessions[j].status = "pending"}}]_vars

(* ===================== pull reconciliation claims ==================== *)

\* Task t takes its merge step on a server session whose identifier
\* get_session_by_uuid found in the store.
MergesExisting(t) ==
  /\ pull[t].pc = "apply"
  /\ pull'[t] # pull[t]
  /\ pull[t].local # {}

RemoteOf(t) == Head(pull[t].resp)
LocalOf(t) == CHOOSE l \in pull[t].local : TRUE

DurationOrNow(s) ==
  IF s.end_time # NULL THEN s.end_time - s.start_time ELSE now - s.start_time

DurationOrZero(s) ==
  IF s.end_time # NULL THEN s.end_time - s.start_time ELSE 0

C15_SessionIdsUnique ==
  \A i, j \in DOMAIN sessions :
    sessions[i].uuid = sessions[j].uuid => i = j

\* C16: a merge step on a session this device created, whose remote
\* duration is equal to or greater than the local one, lowers neither
\* idle_seconds nor deducted_seconds of the local row.
C16_PullKeepsIdleBookkeeping ==
  [][\A t \in PullTasks :
       (/\ MergesExisting(t)
        /\ RemoteOf(t).uuid # ForeignUuid
        /\ DurationOrZero(RemoteOf(t)) >= DurationOrNow(LocalOf(t)))
       => \A i \in DOMAIN sessions :
            sessions[i].uuid = RemoteOf(t).uuid
            => /\ sessions'[i].idle_seconds >= sessions[i].idle_seconds
               /\ sessions'[i].deducted_seconds >= sessions[i].deducted_seconds]_vars

(* ======================= session manager claims ====================== *)

\* The heartbeat thread takes the step from position a to position b.
HbMoves(a, b) == hb.pc = a /\ hb'.pc = b /\ hb' # hb

\* Row i of the next state is the session a rotation or a start opens for
\* project pid: active, pending, all counters zero, started now.
OpenedRow(i, pid) ==
  /\ i \notin DOMAIN sessions
  /\ sessions'[i].project_id = pid
  /\ sessions'[i].is_active
  /\ sessions'[i].start_time = now
  /\ sessions'[i].end_time = NULL
  /\ sessions'[i].status = "pending"
  /\ sessions'[i].idle_seconds = 0
  /\ sessions'[i].deducted_seconds = 0
  /\ sessions'[i].keyboard_events = 0
  /\ sessions'[i].mouse_events = 0

\* Exactly one row is added, it is an opened row of pid, and the rows that
\* existed are unchanged.
AddsOneOpenedRow(pid) ==
  /\ \E i \in DOMAIN sessions' :
       /\ DOMAIN sessions' = DOMAIN sessions \cup {i}
       /\ OpenedRow(i, pid)
  /\ \A j \in DOMAIN sessions : sessions'[j] = sessions[j]

\* The active rows of pid get is_active false and end = now; nothing else
\* changes in the table.
ClosesActiveRows(pid) ==
  /\ DOMAIN sessions' = DOMAIN sessions
  /\ \A i \in DOMAIN sessions :
       sessions'[i] =
         IF sessions[i].project_id = pid /\ sessions[i].is_active
         THEN [sessions[i] EXCEPT !.is_active = FALSE, !.end_time = now]
         ELSE sessions[i]

C18_StartFrame ==
  [][(StartTimer /\ HasProject(users))
     => IF ActiveIds(sessions, CurrentProject(users)) # {}
        THEN UNCHANGED <<sessions, nextId>>
        ELSE /\ AddsOneOpenedRow(CurrentProject(users))
             /\ is_monitoring']_vars

\* A start has acted: the session opened now is the only active one, the
\* monitoring flag is set, and an earlier session is still in the table.
C18_Witness ==
  /\ is_monitoring
  /\ \E i, j \in DOMAIN sessions :
       /\ sessions[j].is_active
       /\ sessions[j].start_time = now
       /\ sessions[j].status = "pending"
       /\ ~sessions[i].is_active
       /\ sessions[i].end_time < now
       /\ last_activity_timestamp = now \div MsPerSecond
  /\ hb.pc = "sleep"
  /\ idlePrompt = NULL

\* C19: stop with a project selected sets is_active false and end = now on
\* the active rows of that project and changes nothing else in the table;
\* with no active row of the project the table is unchanged.
C19_StopFrame ==
  [][(StopTimer /\ HasProject(users))
     => /\ ClosesActiveRows(CurrentProject(users))
        /\ (ActiveIds(sessions, CurrentProject(users)) = {}
            => sessions' = sessions)]_vars

\* A stop has acted: a session was closed now, monitoring is off, and a
\* session closed earlier kept its end.
C19_Witness ==
  /\ ~is_monitoring
  /\ idlePrompt = NULL
  /\ hb.pc = "sleep"
  /\ \E i, j \in DOMAIN sessions :
       /\ ~sessions[i].is_active
       /\ sessions[i].end_time = now
       /\ sessions[i].start_time < now
       /\ ~sessions[j].is_active
       /\ sessions[j].end_time # NULL
       /\ sessions[j].end_time < now

(* ==================== missing user / missing project ================= *)

NoUserLoggedIn == users = {}
NoProjectSelected == \A u \in users : u.current_project_id = NoProject

\* start, stop or the idle decision is invoked.
TimerCommand ==
  \/ StartTimer
  \/ StopTimer
  \/ \E keep \in BOOLEAN : ProcessIdleChoice(idlePrompt, keep)

\* The command leaves every table, the monitoring flag and the sync cycle
\* as they are.
CommandIsNoOp ==
  UNCHANGED <<dbVars, outboxVars, is_monitoring, sync>>

\* C20 as stated: with no user or no project selected, start, stop and the
\* idle decision change nothing, and a sync cycle that is due posts nothing.
C20_NoProjectNoOps ==
  [][NoProjectSelected
     => /\ TimerCommand => CommandIsNoOp
        /\ sync.pc = "idle" => (sync'.pc # "bulk" /\ sync'.pending_sc = {})]_vars

\* C20, amended: with no user or no project selected, start, stop and the
\* idle decision change nothing; with no user logged in, a sync cycle that
\* is due ends at its first step: it takes no snapshot, sends no request and
\* changes no table.
C20_GuardedNoOps ==
  [][/\ (NoProjectSelected /\ TimerCommand) => CommandIsNoOp
     /\ (NoUserLoggedIn /\ sync.pc = "idle")
        => /\ sync' = sync
           /\ (SyncSnapshot => UNCHANGED <<dbVars, outboxVars>>)]_vars

\* A user is logged in with no project selected, the store holds a session
\* of an earlier login that the idle listener closed, and the idle window
\* waits for an answer: start, stop and the idle decision can all be
\* invoked and do nothing.
C20_Witness ==
  /\ users # {}
  /\ NoProjectSelected
  /\ \E i \in DOMAIN sessions : ~sessions[i].is_active
  /\ idlePrompt # NULL
  /\ sync.pc = "idle"

(* ========================= today's total claim ======================= *)

Max0(n) == IF n > 0 THEN n ELSE 0

\* The duration of a session in ms: up to the current time while it is
\* open, up to the stored end otherwise.
ClaimDurationMs(s) ==
  IF s.is_active THEN now - s.start_time ELSE s.end_time - s.start_time

\* max(0, floor(duration / 1000) - deducted) for row k if it is a session of
\* pid started at or after midnight, summed over the rows 1..k.
RECURSIVE ClaimTotal(_, _)
ClaimTotal(pid, k) ==
  IF k = 0 THEN 0
  ELSE ClaimTotal(pid, k - 1) +
       (IF /\ k \in DOMAIN sessions
           /\ sessions[k].project_id = pid
           /\ sessions[k].start_time >= (now \div DayMs) * DayMs
        THEN Max0((ClaimDurationMs(sessions[k]) \div MsPerSecond)
                  - sessions[k].deducted_seconds)
        ELSE 0)

\* C21: the total returned for a project is the sum over its sessions
\* started at or after midnight of max(0, floor(duration_ms / 1000) -
\* deducted_seconds), and it is never negative.
C21_TodayTotalIsClampedSum ==
  today_total # NoTotal
  => /\ today_total.seconds = ClaimTotal(today_total.project_id, MaxTotalRows)
     /\ today_total.seconds >= 0

\* A total was returned for a project that has a session counting with a
\* positive time and a session whose deduction exceeds its duration.
C21_Witness ==
  /\ today_total # NoTotal
  /\ today_total.seconds > 0
  /\ \E i \in DOMAIN sessions :
       /\ sessions[i].project_id = today_total.project_id
       /\ sessions[i].start_time >= (now \div DayMs) * DayMs
       /\ sessions[i].deducted_seconds >
            ClaimDurationMs(sessions[i]) \div MsPerSecond

(* ========================= activity loop claim ======================= *)

\* C22: at most one activity loop thread is alive (sleeping between two
\* samples, or leaving with the guard not cleared yet) in every reachable
\* state.
C22_OneActivityLoop ==
  activity_threads.sleep + activity_threads.exit <= 1

\* A start came while the loop thread was leaving: monitoring is on again,
\* the guard is still set, and the only thread is the leaving one.
C22_Witness ==
  /\ is_monitoring
  /\ is_activity_loop_running
  /\ activity_threads.exit = 1
  /\ \E i \in DOMAIN sessions : sessions[i].is_active

(* ======================= loops and their gating ====================== *)

\* C23: with monitoring off and a user logged in, a sync cycle is started
\* again and again, and a screenshot queued before is removed from the store
\* once the service acknowledges every upload, for as long as the user stays
\* logged in.
C23_SyncRunsWhileNotMonitoring ==
  /\ (~is_monitoring /\ users # {}) ~> (sync.pc # "idle")
  /\ \A id \in 1..MaxShots :
       (~is_monitoring /\ serverUp /\ users # {}
        /\ id \in DOMAIN pending_screenshots)
         ~> (id \notin DOMAIN pending_screenshots \/ users = {})

\* Monitoring is off, the timer was stopped, and the screenshots taken while
\* it ran have all been uploaded, acknowledged and removed by a cycle that
\* the stop did not prevent.
C23_Witness ==
  /\ ~is_monitoring
  /\ users # {}
  /\ sync.pc = "idle"
  /\ sync.results # <<>>
  /\ ackedShots # {}
  /\ pending_screenshots = <<>>
  /\ \A i \in DOMAIN sessions : ~sessions[i].is_active

\* C24: while a user is logged in, a pull cycle is run again and again:
\* from every state with a user, a pull task gets to its GET request or the
\* user is gone.
C24_PullRecurs ==
  (users # {}) ~> ((\E t \in PullTasks : pull[t].pc = "fetch") \/ users = {})

(* ========================= users table claim ========================= *)

\* C25: the users table never holds more than one row, the project list is
\* the one that came with the stored user, and while no user is stored (after
\* a logout) no project and no session row is stored either.
C25_NoRowsWithoutUser ==
  /\ Cardinality(users) <= 1
  /\ \A u \in users : projects = UserProjects(u.uuid)
  /\ (users = {} => (projects = {} /\ sessions = <<>>))

(* ==================== heartbeat and rotation claims ==================== *)

\* C26: the heartbeat write never lands on a closed row: the step of the
\* heartbeat thread that runs update_session_heartbeat leaves every row whose
\* is_active is false as it was.
C26_HeartbeatSkipsClosedRows ==
  [][HbMoves("write", "sleep")
     => \A i \in DOMAIN sessions :
          ~sessions[i].is_active => sessions'[i] = sessions[i]]_vars

\* C27: the rotation's close-then-open is atomic against the store: between
\* the rotation's stop_session and its start_session (hb.pc = "start") no
\* step of another operation changes the sessions table, so no operation
\* acts on having seen the rotating project without an active session.
C27_RotationIsAtomic ==
  [][(hb.pc = "start" /\ hb' = hb) => UNCHANGED <<sessions, nextId>>]_vars

\* C28: a rotation preserves continuity: the session the rotation opens
\* starts at the instant at which a session of the project was closed, and
\* the project's total for today is the same before and after the insert.
C28_RotationIsContinuous ==
  [][HbMoves("start", "refresh")
     => /\ \E i \in DOMAIN sessions :
             /\ sessions[i].project_id = hb.pid
             /\ ~sessions[i].is_active
             /\ sessions[i].end_time = now
        /\ GetTodayTotalTime(sessions', hb.pid, now)
             = GetTodayTotalTime(sessions, hb.pid, now)]_vars

(* ======================== idle decision target ======================== *)

\* C29: the row an idle decision adjusts is the session the idle event
\* closed; in particular it is a closed row, whatever ran between the
\* idle-triggered stop and the decision.
C29_DecisionAdjustsClosedSession ==
  [][idlePrompt # NULL /\ idlePrompt' = NULL
     => \A i \in DOMAIN sessions :
          sessions'[i].idle_seconds # sessions[i].idle_seconds
            => ~sessions[i].is_active]_vars

(* ===================== requests of one sync cycle ===================== *)

\* C30: a sync cycle issues at most one token refresh and posts the session
\* batch at most twice: the first POST opens the cycle, the refresh follows
\* only a 401 to the first POST, the retry follows only a successful refresh,
\* and from the snapshot to the end of the cycle the batch and its logs stay
\* the ones of the snapshot, whatever changes locally meanwhile.
C30_OneRefreshSameBatch ==
  [][/\ (sync'.pc = "bulk" /\ sync.pc # "bulk") => sync.pc = "idle"
     /\ (sync'.pc = "refresh" /\ sync.pc # "refresh")
          => (sync.pc = "bulk" /\ sync.refresh = "none"
              /\ sync'.bulk = "unauthorized")
     /\ (sync'.pc = "retry" /\ sync.pc # "retry")
          => (sync.pc = "refresh" /\ sync.retry = "none"
              /\ sync'.refresh = "ok")
     /\ (sync.pc \in {"bulk", "refresh"} /\ sync'.pc \in {"refresh", "retry"})
          => (sync'.pending_sess = sync.pending_sess
              /\ sync'.session_logs = sync.session_logs)]_vars

\* The retry was answered in a cycle whose refresh succeeded, and by then the
\* store holds a session that is not in the batch.
C30_Witness ==
  /\ sync.bulk = "unauthorized"
  /\ sync.refresh = "ok"
  /\ sync.retry # "none"
  /\ sync.pc = "shots"
  /\ GetPendingSessions(sessions) \ sync.pending_sess # {}

(* ==================== storage errors in the snapshot ================== *)

\* What the snapshot step of a cycle read is what the store holds.
SnapshotReadEverything ==
  /\ sync'.pending_sess = GetPendingSessions(sessions)
  /\ sync'.session_logs = GetActivityLogs(activity_logs,
                                          GetPendingSessions(sessions))
  /\ sync'.pending_sc = GetPendingScreenshots(pending_screenshots)

\* C31: a storage error during the snapshot aborts the cycle: a cycle that
\* leaves the snapshot step with something to upload has read the pending
\* sessions, their activity logs and the pending screenshots in full.
C31_SnapshotErrorAbortsCycle ==
  [][(/\ sync.pc = "idle"
      /\ sync'.pc \in {"bulk", "shots"}
      /\ sync'.pending_sess \cup sync'.pending_sc # {})
     => SnapshotReadEverything]_vars

(* =================== changes made after the snapshot ================== *)

\* C32: nothing recorded locally is lost to the server: once the service
\* acknowledges uploads, every activity log in the store is eventually part
\* of an acknowledged upload, unless the user is gone.
C32_LogsEventuallyAcknowledged ==
  \A l \in 1..MaxLogs :
    (serverUp /\ l \in DOMAIN activity_logs)
      ~> (l \in ackedLogs \/ users = {})

(* ========================== crash and restart ========================= *)

\* The last sign of life of session row s before time t: the end_time its
\* last heartbeat wrote, or t when no heartbeat wrote one.
LastHeartbeat(s, t) == IF s.end_time # NULL THEN s.end_time ELSE t

\* C33: a session that was active when the process died is closed at the
\* next start with an end no later than its last heartbeat before the crash
\* (the time of the crash when it had none), so the time the program was not
\* running is not in the recorded span.
C33_CrashDoesNotInflate ==
  [][now' # now
     => \A i \in DOMAIN sessions :
          (sessions[i].is_active /\ i \in DOMAIN sessions'
           /\ ~sessions'[i].is_active)
            => sessions'[i].end_time <= LastHeartbeat(sessions[i], now)]_vars

(* ====================== project switch and stop ======================= *)

\* C34: after any sequence of start, set_current_project and stop, a stop
\* with a project selected leaves no session of any project active.
C34_StopLeavesNothingActive ==
  [][(HasProject(users) /\ StopTimer)
     => \A p \in Projects : ActiveIds(sessions', p) = {}]_vars

(* ========================= activity loop guard ======================== *)

\* C35: no start is lost by the loop guard: whenever the monitoring flag is
\* set, an activity loop thread is in its loop and will sample again.
C35_MonitoringHasLoop ==
  is_monitoring => activity_threads.sleep > 0

\* C36: a log is appended only while monitoring is enabled, and once
\* monitoring is disabled the loop thread ends and its guard becomes false,
\* unless monitoring is enabled again first.
C36_DisabledLoopEnds ==
  /\ [][activity_logs' # activity_logs => is_monitoring]_vars
  /\ (~is_monitoring)
       ~> (is_monitoring
           \/ (~is_activity_loop_running /\ activity_threads = NoThreads))

\* The loop sampled while the timer ran, the timer was stopped, and the
\* thread has left the loop and cleared its guard.
C36_Witness ==
  /\ ~is_monitoring
  /\ activity_logs # <<>>
  /\ ~is_activity_loop_running
  /\ activity_threads = NoThreads
  /\ \E i \in DOMAIN sessions : ~sessions[i].is_active

(* ===================== idle gap and start of timer ==================== *)

\* The second at which monitoring was last enabled: the start of the session
\* the last start opened.
MonitoringSince ==
  (CHOOSE m \in {sessions[i].start_time : i \in DOMAIN sessions} :
     \A i \in DOMAIN sessions : sessions[i].start_time <= m) \div MsPerSecond

\* C37: an idle gap is reported only while monitoring is enabled, only with
\* a duration of at least the threshold, and never with a duration longer
\* than the time since monitoring was last enabled.
C37_GapWithinMonitoredTime ==
  [][(idle_event' # NULL /\ idle_event' # idle_event)
     => /\ is_monitoring
        /\ idle_event' >= IdleThresholdSecs
        /\ sessions # <<>>
        /\ idle_event' <= (now \div MsPerSecond) - MonitoringSince]_vars

(* ======================== evidence and the user ======================= *)

\* C38: evidence never crosses users: while no user is stored (after a
\* logout, user-invoked or forced), the pending_screenshots and
\* activity_logs tables hold no row, so nothing captured under the previous
\* user is left for the next user's cycles.
C38_LogoutClearsEvidence ==
  users = {} => (pending_screenshots = <<>> /\ activity_logs = <<>>)

(* ============================ upload and quit ========================= *)

\* C39: upload_and_quit ends the process only after the cycle it started
\* has finished: at the exit the cycle is over, with a user stored its
\* uploads were attempted, and no screenshot the service acknowledged is
\* still pending.
C39_QuitAfterCycle ==
  [][(quitting /\ ~quitting')
     => /\ sync.pc = "idle"
        /\ HasUser(users) => sync.results # <<>>
        /\ \A id \in DOMAIN pending_screenshots : id \notin ackedShots]_vars

====
